---- MODULE Spec2Model ----
(***************************************************************************)
(* CFR conversation scoring (ConversationScorer), the persona's            *)
(* cooperation state (PersonaCharacter) and the live training session      *)
(* (EnhancedRoleplayAgent), the labelling of call transcripts              *)
(* (AudioProcessor.identify_speakers) and the offline call report          *)
(* (CallAnalyzer), modelled from the Python sources.                       *)
(*                                                                         *)
(* Utterances are TLA+ strings; substring search, str.lower() and the      *)
(* regular expressions of the scorer are computed character by character.  *)
(* The two non-ASCII feedback markers of the source are written "[ok]"     *)
(* (check mark) and "[!]" (warning sign).                                  *)
(***************************************************************************)
EXTENDS Integers, Sequences, FiniteSets, TLC

VARIABLES
    agent_message,            \* argument of the last score_turn call
    score,                    \* TurnScore returned by the last score_turn call
    cooperation_level,        \* PersonaCharacter.cooperation_level
    current_objection_index,  \* PersonaCharacter.current_objection_index
    objections_raised,        \* PersonaCharacter.objections_raised
    conversation_turns,       \* EnhancedRoleplayAgent.conversation_turns
    turn_scores,              \* EnhancedRoleplayAgent.turn_scores
    training_mode,            \* EnhancedRoleplayAgent.training_mode
    response,                 \* dict returned by the last chat call
    summary,                  \* dict get_session_summary returned, if it was the
                              \* last operation
    transcript,               \* CallTranscript.segments of the uploaded call
    turns,                    \* pairs _extract_turns returned to analyze_call, if
                              \* it was the last operation
    scanned,                  \* for each agent turn, the positions in client_turns
                              \* the inner loop of _extract_turns visited, in order
    report,                   \* CallAnalysisReport analyze_call returned, if it was
                              \* the last operation
    call                      \* the last operation, its argument and the
                              \* cooperation level it started from

vars == <<agent_message, score, cooperation_level, current_objection_index,
          objections_raised, conversation_turns, turn_scores, training_mode,
          response, summary, transcript, turns, scanned, report, call>>

scorer_vars == <<agent_message, score>>
persona_vars == <<cooperation_level, current_objection_index, objections_raised>>
agent_vars == <<conversation_turns, turn_scores, training_mode, response>>
call_vars == <<transcript, turns, scanned, report>>

(***************************************************************************)
(* Bounds                                                                  *)
(***************************************************************************)
MaxPhrases == 2
MaxTurns == 2
QualitySlack == 2
NumObjections == 1
MaxHistory == 3
MaxSegments == 4

(***************************************************************************)
(* Strings                                                                 *)
(***************************************************************************)
Char(s, i) == SubSeq(s, i, i)

StartsAt(s, t, i) ==
    /\ i >= 1
    /\ i + Len(t) - 1 <= Len(s)
    /\ SubSeq(s, i, i + Len(t) - 1) = t

\* Python's `t in s`
Contains(s, t) == \E i \in 1..(Len(s) - Len(t) + 1) : StartsAt(s, t, i)

UpperLetters == "ABCDEFGHIJKLMNOPQRSTUVWXYZ"
LowerLetters == "abcdefghijklmnopqrstuvwxyz"
DigitsUnderscore == "0123456789_"

\* [A-Z]
UpperSet == { Char(UpperLetters, k) : k \in 1..Len(UpperLetters) }
\* \w of the re module on the characters used here
WordSet ==
    UpperSet \cup { Char(LowerLetters, k) : k \in 1..Len(LowerLetters) }
             \cup { Char(DigitsUnderscore, k) : k \in 1..Len(DigitsUnderscore) }
\* \s of the re module
SpaceSet == { " ", "\n", "\t", "\r" }

IsUpper(c) == c \in UpperSet
IsWordChar(c) == c \in WordSet
IsSpace(c) == c \in SpaceSet

\* c.lower() for the capitals
LowerMap ==
    [ c \in UpperSet |->
        Char(LowerLetters, CHOOSE k \in 1..Len(UpperLetters) : Char(UpperLetters, k) = c) ]

LowerChar(c) == IF c \in UpperSet THEN LowerMap[c] ELSE c

\* the lower-cased characters i..j of s
RECURSIVE LowerRange(_, _, _)
LowerRange(s, i, j) ==
    IF i > j THEN ""
    ELSE IF i = j THEN LowerChar(Char(s, i))
    ELSE LET m == (i + j) \div 2
         IN  LowerRange(s, i, m) \o LowerRange(s, m + 1, j)

\* str.lower()
Lower(s) == LowerRange(s, 1, Len(s))

\* \b at the gap before position i (1 <= i <= Len(s) + 1)
WordBoundary(s, i) ==
    LET before == i > 1 /\ IsWordChar(Char(s, i - 1))
        after == i <= Len(s) /\ IsWordChar(Char(s, i))
    IN  before # after

\* re.search(r"\b" + t + r"\b", s) for a literal t
SearchWord(s, t) ==
    \E i \in 1..(Len(s) - Len(t) + 1) :
        /\ StartsAt(s, t, i)
        /\ WordBoundary(s, i)
        /\ WordBoundary(s, i + Len(t))

\* re.search(a + ".+" + b, s) for literals a and b ('.' excludes newline)
SearchGap(s, a, b) ==
    \E i \in 1..Len(s) :
        /\ StartsAt(s, a, i)
        /\ \E j \in (i + Len(a) + 1)..Len(s) :
              /\ StartsAt(s, b, j)
              /\ \A k \in (i + Len(a))..(j - 1) : Char(s, k) # "\n"

RECURSIVE JoinFrom(_, _, _)
JoinFrom(sep, items, i) ==
    IF i > Len(items) THEN ""
    ELSE IF i = Len(items) THEN items[i]
    ELSE items[i] \o sep \o JoinFrom(sep, items, i + 1)

\* sep.join(items)
Join(sep, items) == JoinFrom(sep, items, 1)

\* str(n) of a natural number
RECURSIVE Str(_)
Str(n) ==
    IF n < 10 THEN Char("0123456789", n + 1)
    ELSE Str(n \div 10) \o Char("0123456789", (n % 10) + 1)

RECURSIVE SumSeq(_)
SumSeq(s) == IF s = <<>> THEN 0 ELSE Head(s) + SumSeq(Tail(s))

\* sum(F(ts) for ts in items): enhanced_roleplay_agent.py 166-174, call_analyzer.py 100-101
SumBy(items, F(_)) == SumSeq([i \in 1..Len(items) |-> F(items[i])])

\* The float a / b of two integers, b > 0, kept as the exact quotient.  The
\* comparisons the code makes on such floats (total / max * 100 against 60,
\* 70, 80, 90; a mean against 1, 2, 2.5) come out in IEEE double arithmetic
\* as they do on the exact quotient for every numerator and denominator
\* that occurs, and round(q, 1) does so for denominators below 20.
Quotient(a, b) == [num |-> a, den |-> b]

\* q >= a / b and q < a / b
AtLeast(q, a, b) == q.num * b >= a * q.den
Below(q, a, b) == q.num * b < a * q.den

\* round(q, 1) in tenths: to the nearest tenth, a tie to the even one
round1(q) ==
    LET t == 10 * q.num
        d == t \div q.den
        r == t % q.den
    IN  IF 2 * r < q.den THEN d
        ELSE IF 2 * r > q.den THEN d + 1
        ELSE IF d % 2 = 0 THEN d ELSE d + 1

Min(a, b) == IF a <= b THEN a ELSE b
Max(a, b) == IF a >= b THEN a ELSE b

(***************************************************************************)
(* ConversationScorer._compile_patterns                                    *)
(***************************************************************************)
acknowledge_terms ==
    << "perfect", "that makes perfect sense", "absolutely", "great",
       "fantastic", "you're absolutely right", "that's valid", "you're right",
       "i can appreciate that", "i understand your concern", "amazing",
       "most people tell me that", "i can see the benefit", "wonderful" >>

Msg_understand == "Used 'I understand' without qualifier - breaks rapport"
Msg_wrong == "Told client they're wrong - breaks rapport"
Msg_actually == "Used 'actually' - can sound argumentative"
Msg_but == "Contradicted client - breaks rapport"

\* the keys of the dict self.rapport_breakers, in insertion order
rapport_breaker_patterns ==
    << "\\bi understand\\b(?! your concern)", "\\byou'?re wrong\\b",
       "\\bactually\\b", "\\bbut you said\\b" >>

\* self.rapport_breakers[pattern]
rapport_breaker_message(p) ==
    CASE p = "\\bi understand\\b(?! your concern)" -> Msg_understand
      [] p = "\\byou'?re wrong\\b" -> Msg_wrong
      [] p = "\\bactually\\b" -> Msg_actually
      [] p = "\\bbut you said\\b" -> Msg_but

isolation_patterns ==
    << "besides .+, is there any", "other than .+, is there",
       "out of curiosity, what", "what is the benefit",
       "what specifically makes you", "any other reason you wouldn't" >>

closing_patterns ==
    << "which works better", "does that (make sense|sound good|work for you)",
       "would you like to", "why don't we", "let's", "can you see", "please sign" >>

feel_felt_found_pattern == "(how you feel|you felt|they found)"

has_there_ever_pattern == "has there ever been a time"

level_shift_phrases ==
    << "what i think you're saying", "the real issue", "what appears most important",
       "what i sense", "i believe you're asking", "what i hear you saying" >>

\* r"\bi understand\b(?! your concern)"
Search_i_understand(s) ==
    LET t == "i understand"
    IN  \E i \in 1..(Len(s) - Len(t) + 1) :
            /\ StartsAt(s, t, i)
            /\ WordBoundary(s, i)
            /\ WordBoundary(s, i + Len(t))
            /\ ~StartsAt(s, " your concern", i + Len(t))

\* re.search(p, s) is not None, for the patterns the scorer compiles; a
\* pattern without metacharacters is searched as a literal
re_search(p, s) ==
    CASE p = "\\bi understand\\b(?! your concern)" -> Search_i_understand(s)
      [] p = "\\byou'?re wrong\\b" ->
            SearchWord(s, "you're wrong") \/ SearchWord(s, "youre wrong")
      [] p = "\\bactually\\b" -> SearchWord(s, "actually")
      [] p = "\\bbut you said\\b" -> SearchWord(s, "but you said")
      [] p = "besides .+, is there any" -> SearchGap(s, "besides ", ", is there any")
      [] p = "other than .+, is there" -> SearchGap(s, "other than ", ", is there")
      [] p = "does that (make sense|sound good|work for you)" ->
            \/ Contains(s, "does that make sense")
            \/ Contains(s, "does that sound good")
            \/ Contains(s, "does that work for you")
      [] p = "(how you feel|you felt|they found)" ->
            \/ Contains(s, "how you feel")
            \/ Contains(s, "you felt")
            \/ Contains(s, "they found")
      [] OTHER -> Contains(s, p)

\* the start positions of the matches re.findall(r'\b[A-Z]{2,}(?:\s+[A-Z]{2,})*\b', s)
\* can begin at: a word boundary followed by two or more capitals that end at a
\* word boundary
CapsWordAt(s, i) ==
    /\ WordBoundary(s, i)
    /\ \E j \in (i + 1)..Len(s) :
          /\ \A k \in i..j : IsUpper(Char(s, k))
          /\ WordBoundary(s, j + 1)

\* the end of the longest match of [A-Z]{2,}(?:\s+[A-Z]{2,})*\b that starts at i
RECURSIVE CapsRunEnd(_, _)
CapsRunEnd(s, i) ==
    LET j == CHOOSE e \in (i + 1)..Len(s) :
                 /\ \A k \in i..e : IsUpper(Char(s, k))
                 /\ WordBoundary(s, e + 1)
        \* the next capital word after one or more whitespace characters
        nxt == {n \in (j + 2)..Len(s) :
                   /\ \A k \in (j + 1)..(n - 1) : IsSpace(Char(s, k))
                   /\ CapsWordAt(s, n)}
    IN  IF nxt = {} THEN j ELSE CapsRunEnd(s, CHOOSE n \in nxt : TRUE)

\* re.findall(r'\b[A-Z]{2,}(?:\s+[A-Z]{2,})*\b', s): leftmost, non-overlapping
RECURSIVE embedded_from(_, _)
embedded_from(s, i) ==
    LET starts == { p \in i..Len(s) : CapsWordAt(s, p) }
    IN  IF starts = {} THEN <<>>
        ELSE LET p == CHOOSE q \in starts : \A r \in starts : q <= r
                 e == CapsRunEnd(s, p)
             IN  <<SubSeq(s, p, e)>> \o embedded_from(s, e + 1)

find_embedded(s) == embedded_from(s, 1)

(***************************************************************************)
(* TurnScore.  magic_phrases_used is filled from data/magic_phrases.json   *)
(* alone and read by no operation modelled here; it is left out.           *)
(***************************************************************************)
\* TurnScore()
NewTurnScore ==
    [ acknowledge_affirm |-> 0, isolate |-> 0, handle |-> 0, close |-> 0,
      techniques_detected |-> <<>>, rapport_breakers |-> <<>>, feedback |-> <<>> ]

\* total with the rapport-breaker penalty taken off
total_penalized(ts) ==
    ts.acknowledge_affirm + ts.isolate + ts.handle + ts.close - Len(ts.rapport_breakers)

\* the property TurnScore.total
total(ts) == ts.acknowledge_affirm + ts.isolate + ts.handle + ts.close

\* the property TurnScore.max_score
max_score(ts) == 11

(***************************************************************************)
(* ConversationScorer: each _score_* returns <<score, feedback>>           *)
(***************************************************************************)
\* one term found scores 1 instead of 2
score_acknowledge_affirm_linear(agent_lower) ==
    LET found_terms == SelectSeq(acknowledge_terms, LAMBDA term : Contains(agent_lower, term))
    IN  IF Len(found_terms) >= 2
        THEN << 3, << "[ok] Excellent acknowledgement: used '" \o found_terms[1]
                      \o "' and '" \o found_terms[2] \o "'" >> >>
        ELSE IF Len(found_terms) = 1
        THEN << 1, << "[ok] Good acknowledgement: used '" \o found_terms[1] \o "'" >> >>
        ELSE << 0, << "[!] Missing acknowledgement - start with 'Perfect', 'I can appreciate that', etc." >> >>

score_acknowledge_affirm(agent_lower) ==
    LET found_terms == SelectSeq(acknowledge_terms, LAMBDA term : Contains(agent_lower, term))
    IN  IF Len(found_terms) >= 2
        THEN << 3, << "[ok] Excellent acknowledgement: used '" \o found_terms[1]
                      \o "' and '" \o found_terms[2] \o "'" >> >>
        ELSE IF Len(found_terms) = 1
        THEN << 2, << "[ok] Good acknowledgement: used '" \o found_terms[1] \o "'" >> >>
        ELSE << 0, << "[!] Missing acknowledgement - start with 'Perfect', 'I can appreciate that', etc." >> >>

\* one pattern matched scores 1 and several score 2, as for close
score_isolate_linear(agent_lower) ==
    LET matches == SelectSeq(isolation_patterns, LAMBDA p : re_search(p, agent_lower))
    IN  IF Len(matches) >= 2
        THEN << 2, << "[ok] Excellent isolation: asked multiple clarifying questions" >> >>
        ELSE IF Len(matches) = 1
        THEN << 1, << "[ok] Good isolation: asked clarifying question" >> >>
        ELSE << 0, << "[!] Missing isolation - ask 'Besides that, is there any other reason you wouldn't...?'" >> >>

score_isolate(agent_lower) ==
    LET matches == SelectSeq(isolation_patterns, LAMBDA p : re_search(p, agent_lower))
    IN  IF Len(matches) >= 2
        THEN << 3, << "[ok] Excellent isolation: asked multiple clarifying questions" >> >>
        ELSE IF Len(matches) = 1
        THEN << 2, << "[ok] Good isolation: asked clarifying question" >> >>
        ELSE << 0, << "[!] Missing isolation - ask 'Besides that, is there any other reason you wouldn't...?'" >> >>

\* the running score and feedback of _score_handle after its four checks
handle_checks(agent_lower, agent_full) ==
    LET fff == re_search(feel_felt_found_pattern, agent_lower)
        hteb == re_search(has_there_ever_pattern, agent_lower)
        shift == \E k \in 1..Len(level_shift_phrases) :
                     Contains(agent_lower, level_shift_phrases[k])
        embedded == find_embedded(agent_full)
    IN  << (IF fff THEN 2 ELSE 0) + (IF hteb THEN 2 ELSE 0)
           + (IF shift THEN 1 ELSE 0) + (IF Len(embedded) > 0 THEN 1 ELSE 0),
           (IF fff THEN << "[ok] Used Feel-Felt-Found empathy technique" >> ELSE <<>>)
           \o (IF hteb
               THEN << "[ok] Used 'Has There Ever Been' pattern - leveraging past mistakes" >>
               ELSE <<>>)
           \o (IF shift THEN << "[ok] Used Level Shift to reframe" >> ELSE <<>>)
           \o (IF Len(embedded) > 0
               THEN << "[ok] Used embedded command: " \o embedded[1] >>
               ELSE <<>>) >>

\* without the baseline point when nothing was detected
score_handle_no_baseline(agent_lower, agent_full) ==
    LET checks == handle_checks(agent_lower, agent_full)
    IN  << Min(3, checks[1]), checks[2] >>

\* without the cap at 3
score_handle_uncapped(agent_lower, agent_full) ==
    LET checks == handle_checks(agent_lower, agent_full)
    IN  IF checks[1] = 0
        THEN << 1, checks[2] \o << "[!] Consider using Feel-Felt-Found or Has There Ever Been technique" >> >>
        ELSE << checks[1], checks[2] >>

score_handle(agent_lower, agent_full) ==
    LET checks == handle_checks(agent_lower, agent_full)
    IN  IF checks[1] = 0
        THEN << Min(3, 1),
                checks[2] \o << "[!] Consider using Feel-Felt-Found or Has There Ever Been technique" >> >>
        ELSE << Min(3, checks[1]), checks[2] >>

score_close(agent_lower) ==
    LET matches == SelectSeq(closing_patterns, LAMBDA p : re_search(p, agent_lower))
    IN  IF Len(matches) >= 2
        THEN << 2, << "[ok] Strong close: multiple closing questions/statements" >> >>
        ELSE IF Len(matches) = 1
        THEN << 1, << "[ok] Attempted close" >> >>
        ELSE << 0, << "[!] Missing close - try 'Does that make sense?', 'Which works better for you?'" >> >>

detect_rapport_breakers(agent_lower) ==
    LET hits == SelectSeq(rapport_breaker_patterns, LAMBDA p : re_search(p, agent_lower))
    IN  [k \in 1..Len(hits) |-> rapport_breaker_message(hits[k])]

score_turn(message) ==
    LET agent_lower == Lower(message)
        ack == score_acknowledge_affirm(agent_lower)
        iso == score_isolate(agent_lower)
        han == score_handle(agent_lower, message)
        clo == score_close(agent_lower)
        breakers == detect_rapport_breakers(agent_lower)
        penalty == Len(breakers)
    IN  [ acknowledge_affirm |-> ack[1],
          isolate |-> iso[1],
          handle |-> han[1],
          close |-> clo[1],
          techniques_detected |->
              SelectSeq(han[2], LAMBDA fb : Contains(Lower(fb), "technique")),
          rapport_breakers |-> breakers,
          feedback |->
              ack[2] \o iso[2] \o han[2] \o clo[2]
              \o (IF Len(breakers) > 0
                  THEN << "[!] Rapport breakers detected: -" \o Str(penalty) \o " points" >>
                  ELSE <<>>) ]

(***************************************************************************)
(* The utterances scored: up to MaxPhrases of the phrases below, joined    *)
(* by a space.                                                             *)
(***************************************************************************)
Phrases ==
    { "Perfect!", "I understand your concern.", "I understand.", "Actually, no.",
      "Besides price, is there any issue?", "Out of curiosity, what else?",
      "I know how you feel.", "Has there ever been a time?",
      "The real issue is trust.", "SIGN TODAY", "OK",
      "Does that make sense?", "Let's go." }

\* the utterance of section 8 of the specification
FullCFR ==
    "Perfect! I can appreciate that. Besides the price, is there any other reason you wouldn't move forward? I know how you feel, other clients felt the same but found it worked out. Does that make sense?"

SessionUtterances ==
    { "", "Actually, no. Perfect!", "That makes perfect sense. Let's go.", FullCFR }

\* an utterance that scores 10
StrongTurn ==
    "Perfect! That makes sense. Besides price, is there any issue? Out of curiosity, what else? I know how you feel. Has there ever been a time? Does that make sense? Let's go."

Utterances ==
    { Join(" ", ps) : ps \in UNION { [1..n -> Phrases] : n \in 0..MaxPhrases } }
    \cup SessionUtterances \cup { StrongTurn }

\* score_turn, computed once per utterance
ScoreOf == [u \in Utterances |-> score_turn(u)]

\* what the text-generation service answers ("" when no ai message comes back)
Replies == { "", "I am not sure." }

TrainingModes == { "practice", "scoring", "challenge" }

\* the names of the persona's objection patterns
objection_patterns == [k \in 1..NumObjections |-> "objection " \o Str(k)]

Qualities == (0 - QualitySlack)..(11 + QualitySlack)

\* summary when the last operation was not get_session_summary, report when
\* it was not analyze_call: no such result is at hand
NoSummary == [ pending |-> "get_session_summary" ]
NoReport == [ pending |-> "analyze_call" ]

(***************************************************************************)
(* PersonaCharacter                                                        *)
(***************************************************************************)
\* the top band starts above 8 instead of at 8
adjust_cooperation_strict(level, agent_response_quality) ==
    IF agent_response_quality > 8 THEN Min(10, level + 2)
    ELSE IF agent_response_quality >= 5 THEN Min(10, level + 1)
    ELSE IF agent_response_quality < 3 THEN Max(0, level - 2)
    ELSE Max(0, level - 1)

\* without the clamps to [0, 10]
adjust_cooperation_unclamped(level, agent_response_quality) ==
    IF agent_response_quality >= 8 THEN level + 2
    ELSE IF agent_response_quality >= 5 THEN level + 1
    ELSE IF agent_response_quality < 3 THEN level - 2
    ELSE level - 1

\* the lowest band checks its lower end too
adjust_cooperation_range_checked(level, agent_response_quality) ==
    IF agent_response_quality >= 8 THEN Min(10, level + 2)
    ELSE IF agent_response_quality >= 5 THEN Min(10, level + 1)
    ELSE IF 0 <= agent_response_quality /\ agent_response_quality < 3
    THEN Max(0, level - 2)
    ELSE Max(0, level - 1)

\* the new cooperation_level
adjust_cooperation(level, agent_response_quality) ==
    IF agent_response_quality >= 8 THEN Min(10, level + 2)
    ELSE IF agent_response_quality >= 5 THEN Min(10, level + 1)
    ELSE IF agent_response_quality < 3 THEN Max(0, level - 2)
    ELSE Max(0, level - 1)

AdjustCooperation(q) ==
    /\ cooperation_level' = adjust_cooperation(cooperation_level, q)
    /\ call' = [op |-> "adjust_cooperation", arg |-> q, before |-> cooperation_level]
    /\ UNCHANGED <<current_objection_index, objections_raised, scorer_vars, agent_vars>>
    /\ summary' = NoSummary
    /\ UNCHANGED call_vars

get_next_objection ==
    /\ IF current_objection_index >= Len(objection_patterns)
       THEN UNCHANGED <<current_objection_index, objections_raised>>
       ELSE /\ current_objection_index' = current_objection_index + 1
            /\ objections_raised' =
                   Append(objections_raised, objection_patterns[current_objection_index + 1])
    /\ call' = [op |-> "get_next_objection", arg |-> current_objection_index,
                before |-> cooperation_level]
    /\ summary' = NoSummary
    /\ UNCHANGED <<cooperation_level, scorer_vars, agent_vars, call_vars>>

reset_conversation ==
    /\ current_objection_index' = 0
    /\ cooperation_level' = 5
    /\ objections_raised' = <<>>
    /\ call' = [op |-> "reset_conversation", arg |-> 0, before |-> cooperation_level]
    /\ summary' = NoSummary
    /\ UNCHANGED <<scorer_vars, agent_vars, call_vars>>

(***************************************************************************)
(* ConversationScorer.score_turn, called on its own                        *)
(***************************************************************************)
ScoreTurn(u) ==
    /\ agent_message' = u
    /\ score' = ScoreOf[u]
    /\ call' = [op |-> "score_turn", arg |-> 0, before |-> cooperation_level]
    /\ summary' = NoSummary
    /\ UNCHANGED <<persona_vars, agent_vars, call_vars>>

(***************************************************************************)
(* EnhancedRoleplayAgent                                                   *)
(***************************************************************************)
get_suggested_techniques(turn_score) ==
    (IF turn_score.acknowledge_affirm < 2
     THEN << "Try starting with: 'Perfect!', 'I can appreciate that', or 'That makes sense'" >>
     ELSE <<>>)
    \o (IF turn_score.isolate < 2
        THEN << "Ask isolation question: 'Besides that, is there any other reason you wouldn't...?'" >>
        ELSE <<>>)
    \o (IF turn_score.handle < 2
        THEN << "Use Feel-Felt-Found: 'I know how you feel... my clients felt the same... but what they found...'" >>
        ELSE <<>>)
    \o (IF turn_score.close = 0
        THEN << "Add a close: 'Does that make sense?', 'Which works better for you?'" >>
        ELSE <<>>)

\* the score fields are shown in every mode
chat_response_showing(mode, client_response, cooperation, scored, turn_score) ==
    LET base == [ client_response |-> client_response,
                  persona_cooperation |-> cooperation ]
        shown == [ score |-> total(turn_score),
                   max_score |-> max_score(turn_score),
                   feedback |-> turn_score.feedback ]
    IN  IF scored THEN base @@ shown ELSE base

\* the dict chat returns; scored tells whether a turn_score exists
chat_response(mode, client_response, cooperation, scored, turn_score) ==
    LET base == [ client_response |-> client_response,
                  persona_cooperation |-> cooperation ]
        shown == [ score |-> total(turn_score),
                   max_score |-> max_score(turn_score),
                   feedback |-> turn_score.feedback ]
    IN  IF mode = "scoring" /\ scored THEN base @@ shown
        ELSE IF mode = "practice" /\ scored
        THEN base @@ shown
             @@ [ suggested_techniques |-> get_suggested_techniques(turn_score) ]
        ELSE base

\* chat(message) once score_turn has returned turn_score; invoke_ok tells
\* whether self.agent.invoke returns (with reply) or raises
chat_scored(message, turn_score, invoke_ok, reply) ==
    LET scored == conversation_turns # <<>>
        cooperation == IF scored
                       THEN adjust_cooperation(cooperation_level, total(turn_score))
                       ELSE cooperation_level
    IN  /\ Len(conversation_turns) < MaxTurns
        /\ Len(turn_scores) < MaxTurns
        /\ IF scored
           THEN /\ turn_scores' = Append(turn_scores, turn_score)
                /\ agent_message' = message
                /\ score' = turn_score
           ELSE UNCHANGED <<turn_scores, agent_message, score>>
        /\ cooperation_level' = cooperation
        /\ IF invoke_ok
           THEN /\ conversation_turns' = Append(conversation_turns, <<message, reply>>)
                /\ response' = chat_response(training_mode, reply, cooperation,
                                             scored, turn_score)
           ELSE UNCHANGED <<conversation_turns, response>>
        /\ call' = [op |-> IF invoke_ok THEN "chat" ELSE "chat raised",
                    arg |-> IF scored THEN total(turn_score) ELSE 0 - 1,
                    before |-> cooperation_level]
        /\ UNCHANGED <<current_objection_index, objections_raised, training_mode>>
        /\ summary' = NoSummary
        /\ UNCHANGED call_vars

chat(message, invoke_ok, reply) ==
    chat_scored(message, ScoreOf[message], invoke_ok, reply)

\* reset that forgets to clear the recorded turn scores
reset_keeping_scores ==
    /\ current_objection_index' = 0
    /\ cooperation_level' = 5
    /\ objections_raised' = <<>>
    /\ conversation_turns' = <<>>
    /\ call' = [op |-> "reset", arg |-> 0, before |-> cooperation_level]
    /\ UNCHANGED <<scorer_vars, training_mode, response, turn_scores>>
    /\ summary' = NoSummary
    /\ UNCHANGED call_vars

reset ==
    /\ current_objection_index' = 0
    /\ cooperation_level' = 5
    /\ objections_raised' = <<>>
    /\ conversation_turns' = <<>>
    /\ turn_scores' = <<>>
    /\ call' = [op |-> "reset", arg |-> 0, before |-> cooperation_level]
    /\ summary' = NoSummary
    /\ UNCHANGED <<scorer_vars, training_mode, response, call_vars>>

\* total_score / max_score * 100, or 0 when max_score is 0
session_percentage(total_score, max_score_sum) ==
    IF max_score_sum > 0 THEN Quotient(100 * total_score, max_score_sum)
    ELSE Quotient(0, 1)

\* grade A only above 90
session_grade_strict(percentage) ==
    IF percentage.num > 90 * percentage.den THEN "A"
    ELSE IF AtLeast(percentage, 80, 1) THEN "B"
    ELSE IF AtLeast(percentage, 70, 1) THEN "C"
    ELSE IF AtLeast(percentage, 60, 1) THEN "D"
    ELSE "F"

session_grade(percentage) ==
    IF AtLeast(percentage, 90, 1) THEN "A"
    ELSE IF AtLeast(percentage, 80, 1) THEN "B"
    ELSE IF AtLeast(percentage, 70, 1) THEN "C"
    ELSE IF AtLeast(percentage, 60, 1) THEN "D"
    ELSE "F"

ack_of(ts) == ts.acknowledge_affirm
iso_of(ts) == ts.isolate
handle_of(ts) == ts.handle
close_of(ts) == ts.close
breakers_of(ts) == Len(ts.rapport_breakers)

\* sum(field) / len(scores), for a non-empty list
\* sum(F(ts) for ts in self.turn_scores) / len(self.turn_scores): enhanced_roleplay_agent.py 170-174
mean(scores, F(_)) == Quotient(SumBy(scores, F), Len(scores))

session_strengths(scores) ==
    (IF AtLeast(mean(scores, ack_of), 5, 2)
     THEN << "Excellent acknowledgement skills" >> ELSE <<>>)
    \o (IF AtLeast(mean(scores, iso_of), 5, 2)
        THEN << "Strong objection isolation" >> ELSE <<>>)
    \o (IF AtLeast(mean(scores, handle_of), 5, 2)
        THEN << "Good use of handling techniques" >> ELSE <<>>)

session_improvements(scores) ==
    (IF ~AtLeast(mean(scores, ack_of), 5, 2) /\ Below(mean(scores, ack_of), 2, 1)
     THEN << "Work on acknowledgement (start with 'Perfect', 'I appreciate that')" >>
     ELSE <<>>)
    \o (IF ~AtLeast(mean(scores, iso_of), 5, 2) /\ Below(mean(scores, iso_of), 2, 1)
        THEN << "Practice isolation questions" >> ELSE <<>>)
    \o (IF ~AtLeast(mean(scores, handle_of), 5, 2) /\ Below(mean(scores, handle_of), 2, 1)
        THEN << "Try Feel-Felt-Found or Has There Ever Been techniques" >> ELSE <<>>)
    \o (IF SumBy(scores, breakers_of) > 0
        THEN << "Avoid rapport breakers (" \o Str(SumBy(scores, breakers_of))
                \o " detected)" >>
        ELSE <<>>)

\* the summary without the early return on an empty history
get_session_summary_no_sentinel(scores, cooperation) ==
    [ total_score |-> SumBy(scores, total),
      max_score |-> SumBy(scores, max_score),
      percentage |-> session_percentage(SumBy(scores, total), SumBy(scores, max_score)),
      grade |-> session_grade(session_percentage(SumBy(scores, total),
                                                 SumBy(scores, max_score))),
      num_turns |-> Len(scores),
      averages |-> [ acknowledge_affirm |-> 0, isolate |-> 0, handle |-> 0, close |-> 0 ],
      strengths |-> <<>>,
      improvements |-> <<>>,
      final_cooperation |-> cooperation ]

\* the dict get_session_summary returns; averages are in tenths
get_session_summary(scores, cooperation) ==
    IF scores = <<>> THEN [ message |-> "No turns scored yet" ]
    ELSE [ total_score |-> SumBy(scores, total),
           max_score |-> SumBy(scores, max_score),
           percentage |-> session_percentage(SumBy(scores, total),
                                             SumBy(scores, max_score)),
           grade |-> session_grade(session_percentage(SumBy(scores, total),
                                                      SumBy(scores, max_score))),
           num_turns |-> Len(scores),
           averages |-> [ acknowledge_affirm |-> round1(mean(scores, ack_of)),
                          isolate |-> round1(mean(scores, iso_of)),
                          handle |-> round1(mean(scores, handle_of)),
                          close |-> round1(mean(scores, close_of)) ],
           strengths |-> session_strengths(scores),
           improvements |-> session_improvements(scores),
           final_cooperation |-> cooperation ]

GetSessionSummary ==
    /\ summary' = get_session_summary(turn_scores, cooperation_level)
    /\ call' = [op |-> "get_session_summary", arg |-> Len(turn_scores),
                before |-> cooperation_level]
    /\ UNCHANGED <<persona_vars, scorer_vars, agent_vars, call_vars>>

(***************************************************************************)
(* CallTranscript and AudioProcessor.identify_speakers.  A transcript is   *)
(* the sequence of its segments; start and end are in tenths of a second.  *)
(***************************************************************************)
\* Python's None, as a speaker and as an absent optional field
None == "None"

TranscriptSegment(start, end, text, speaker) ==
    [ start |-> start, end |-> end, text |-> text, speaker |-> speaker ]

TurnsOf(segments, speaker) ==
    LET said == SelectSeq(segments, LAMBDA seg : seg.speaker = speaker)
    IN  [i \in 1..Len(said) |-> << said[i].text, said[i].start >>]

get_agent_turns(segments) == TurnsOf(segments, "agent")
get_client_turns(segments) == TurnsOf(segments, "client")

agent_keywords ==
    << "let me show you", "i can help", "our team", "i would recommend",
       "i'll send you", "my clients", "i appreciate that", "perfect",
       "does that make sense" >>

is_agent(text) ==
    \E k \in 1..Len(agent_keywords) : Contains(Lower(text), agent_keywords[k])

\* a segment without keyword is told apart from its predecessor by the
\* predecessor's keywords, not by the label the predecessor got
identify_speakers_by_keyword(segments, keyword) ==
    [ i \in 1..Len(segments) |->
        [ segments[i] EXCEPT !.speaker =
            IF keyword[segments[i].text] THEN "agent"
            ELSE IF i = 1 THEN "client"
            ELSE IF keyword[segments[i - 1].text] THEN "client" ELSE "agent" ] ]

\* a segment without keyword is the client's, whoever spoke before
identify_speakers_no_alternation(segments, keyword) ==
    [ i \in 1..Len(segments) |->
        [ segments[i] EXCEPT !.speaker =
            IF keyword[segments[i].text] THEN "agent" ELSE "client" ] ]

\* the segments as identify_speakers leaves them; keyword[text] tells
\* whether an agent keyword occurs in text
identify_speakers(segments, keyword) ==
    LET speaker[i \in 1..Len(segments)] ==
            IF i = 1
            THEN IF keyword[segments[i].text] THEN "agent" ELSE "client"
            ELSE IF keyword[segments[i].text] THEN "agent"
            ELSE IF speaker[i - 1] = "agent" THEN "client" ELSE "agent"
    IN  [ i \in 1..Len(segments) |-> [ segments[i] EXCEPT !.speaker = speaker[i] ] ]

(***************************************************************************)
(* CallAnalyzer                                                            *)
(***************************************************************************)
\* the scan of _extract_turns over the client turns from position k on
RECURSIVE scan_clients(_, _, _, _)
scan_clients(client_turns, agent_time, k, client_text) ==
    IF k > Len(client_turns) THEN client_text
    ELSE IF client_turns[k][2] < agent_time
    THEN scan_clients(client_turns, agent_time, k + 1, client_turns[k][1])
    ELSE client_text

\* the scan goes on over a client turn that starts with the agent turn
RECURSIVE scan_clients_inclusive(_, _, _, _)
scan_clients_inclusive(client_turns, agent_time, k, client_text) ==
    IF k > Len(client_turns) THEN client_text
    ELSE IF client_turns[k][2] <= agent_time
    THEN scan_clients_inclusive(client_turns, agent_time, k + 1, client_turns[k][1])
    ELSE client_text

extract_turns_inclusive(segments) ==
    [ i \in 1..Len(get_agent_turns(segments)) |->
        << get_agent_turns(segments)[i][1],
           scan_clients_inclusive(get_client_turns(segments),
                                  get_agent_turns(segments)[i][2], 1, "") >> ]

\* _extract_turns: (agent_text, client_text) pairs
extract_turns(segments) ==
    [ i \in 1..Len(get_agent_turns(segments)) |->
        << get_agent_turns(segments)[i][1],
           scan_clients(get_client_turns(segments),
                        get_agent_turns(segments)[i][2], 1, "") >> ]

\* the positions of client_turns the inner loop of _extract_turns visits from
\* position k on: each one it assigns from, and the one it breaks at
RECURSIVE visited_clients(_, _, _)
visited_clients(client_turns, agent_time, k) ==
    IF k > Len(client_turns) THEN <<>>
    ELSE IF client_turns[k][2] < agent_time
    THEN << k >> \o visited_clients(client_turns, agent_time, k + 1)
    ELSE << k >>

\* the inner loop starts at the first client turn for every agent turn
scan_positions(segments) ==
    [ i \in 1..Len(get_agent_turns(segments)) |->
        visited_clients(get_client_turns(segments), get_agent_turns(segments)[i][2], 1) ]

call_percentage(total_score, max_score_sum) ==
    IF max_score_sum > 0 THEN Quotient(100 * total_score, max_score_sum)
    ELSE Quotient(0, 1)

call_grade(percentage) ==
    IF AtLeast(percentage, 90, 1) THEN "A"
    ELSE IF AtLeast(percentage, 80, 1) THEN "B"
    ELSE IF AtLeast(percentage, 70, 1) THEN "C"
    ELSE IF AtLeast(percentage, 60, 1) THEN "D"
    ELSE "F"

\* the overall metrics analyze_call computes from the turn scores
overall_metrics(scores) ==
    [ overall_score |-> SumBy(scores, total),
      max_score |-> SumBy(scores, max_score),
      percentage |-> call_percentage(SumBy(scores, total), SumBy(scores, max_score)),
      grade |-> call_grade(call_percentage(SumBy(scores, total),
                                           SumBy(scores, max_score))) ]

RECURSIVE Flatten(_)
Flatten(lists) == IF lists = <<>> THEN <<>> ELSE Head(lists) \o Flatten(Tail(lists))

\* the start of the i-th agent turn (i from 1), 0.0 when there is none
timestamp_of(agent_turns, i) ==
    IF i <= Len(agent_turns) THEN agent_turns[i][2] ELSE 0

TimestampedFeedback(timestamp, turn_number, feedback_type, message, technique) ==
    [ timestamp |-> timestamp, turn_number |-> turn_number,
      feedback_type |-> feedback_type, message |-> message,
      suggested_technique |-> technique, example_script |-> None ]

\* one critical entry per turn, for its first rapport breaker only
turn_feedback_one_critical(timestamp, i, turn_score) ==
    (IF turn_score.rapport_breakers # <<>>
     THEN << TimestampedFeedback(timestamp, i, "critical",
                 "Rapport breaker: " \o turn_score.rapport_breakers[1],
                 "Use 'I can appreciate that' instead of 'I understand'") >>
     ELSE <<>>)
    \o (IF turn_score.isolate < 2
        THEN << TimestampedFeedback(timestamp, i, "improvement",
                    "Client raised objection but you didn't isolate",
                    "Ask: 'Besides that, is there any other reason you wouldn't...?'") >>
        ELSE <<>>)
    \o (IF total(turn_score) >= 9
        THEN << TimestampedFeedback(timestamp, i, "strength",
                    "Excellent CFR technique usage! Score: "
                    \o Str(total(turn_score)) \o "/11", None) >>
        ELSE <<>>)

\* what _generate_timestamped_feedback appends for turn i
turn_feedback(timestamp, i, turn_score) ==
    [ b \in 1..Len(turn_score.rapport_breakers) |->
        TimestampedFeedback(timestamp, i, "critical",
            "Rapport breaker: " \o turn_score.rapport_breakers[b],
            "Use 'I can appreciate that' instead of 'I understand'") ]
    \o (IF turn_score.isolate < 2
        THEN << TimestampedFeedback(timestamp, i, "improvement",
                    "Client raised objection but you didn't isolate",
                    "Ask: 'Besides that, is there any other reason you wouldn't...?'") >>
        ELSE <<>>)
    \o (IF total(turn_score) >= 9
        THEN << TimestampedFeedback(timestamp, i, "strength",
                    "Excellent CFR technique usage! Score: "
                    \o Str(total(turn_score)) \o "/11", None) >>
        ELSE <<>>)

generate_timestamped_feedback(segments, pairs, scores) ==
    Flatten([ i \in 1..Min(Len(scores), Len(pairs)) |->
                turn_feedback(timestamp_of(get_agent_turns(segments), i), i, scores[i]) ])

\* f"{timestamp:.1f}s" of a time in tenths of a second
format_timestamp(t) == Str(t \div 10) \o "." \o Str(t % 10) \o "s"

\* what _find_missed_opportunities appends for one turn
turn_opportunities(timestamp, client_msg, turn_score) ==
    (IF turn_score.isolate = 0 /\ client_msg # ""
     THEN << [ timestamp |-> format_timestamp(timestamp),
               context |-> "Client said: '"
                           \o SubSeq(client_msg, 1, Min(50, Len(client_msg))) \o "...'",
               suggestion |-> "Isolate the objection",
               example |-> "Besides that, is there any other reason you wouldn't move forward?" ] >>
     ELSE <<>>)
    \o (IF turn_score.acknowledge_affirm = 0
        THEN << [ timestamp |-> format_timestamp(timestamp),
                  context |-> "Response started without acknowledgement",
                  suggestion |-> "Start with acknowledgement term",
                  example |-> "Perfect! I can appreciate that concern..." ] >>
        ELSE <<>>)

all_opportunities(segments, pairs, scores) ==
    Flatten([ i \in 1..Min(Len(scores), Len(pairs)) |->
                turn_opportunities(timestamp_of(get_agent_turns(segments), i),
                                   pairs[i][2], scores[i]) ])

\* the list is returned whole
find_missed_opportunities_unbounded(segments, pairs, scores) ==
    all_opportunities(segments, pairs, scores)

find_missed_opportunities(segments, pairs, scores) ==
    SubSeq(all_opportunities(segments, pairs, scores), 1,
           Min(5, Len(all_opportunities(segments, pairs, scores))))

\* sum(field) / max(len(scores), 1)
\* call_analyzer.py 218-226, 246-262
guarded_mean(scores, F(_)) == Quotient(SumBy(scores, F), Max(Len(scores), 1))

all_techniques(scores) ==
    Flatten([ i \in 1..Len(scores) |-> scores[i].techniques_detected ])

Range(items) == { items[i] : i \in 1..Len(items) }

identify_key_wins(scores) ==
    (IF 2 * Cardinality({ i \in 1..Len(scores) : total(scores[i]) >= 8 }) > Len(scores)
     THEN << "Consistent use of CFR framework throughout call" >> ELSE <<>>)
    \o (IF AtLeast(guarded_mean(scores, ack_of), 5, 2)
        THEN << "Excellent acknowledgement and affirmation skills" >> ELSE <<>>)
    \o (IF AtLeast(guarded_mean(scores, iso_of), 5, 2)
        THEN << "Strong objection isolation" >> ELSE <<>>)
    \o (IF Contains(Join(" ", all_techniques(scores)), "Feel-Felt-Found")
        THEN << "Used Feel-Felt-Found empathy technique" >> ELSE <<>>)
    \o (IF Len(all_techniques(scores)) >= 3
        THEN << "Demonstrated variety of techniques ("
                \o Str(Cardinality(Range(all_techniques(scores)))) \o " different)" >>
        ELSE <<>>)

identify_improvements(scores) ==
    (IF Below(guarded_mean(scores, ack_of), 2, 1)
     THEN << "Start responses with acknowledgement ('Perfect', 'I can appreciate that')" >>
     ELSE <<>>)
    \o (IF Below(guarded_mean(scores, iso_of), 2, 1)
        THEN << "Practice isolation questions ('Besides that, any other concerns?')" >>
        ELSE <<>>)
    \o (IF Below(guarded_mean(scores, handle_of), 2, 1)
        THEN << "Use more advanced techniques (Feel-Felt-Found, Level Shift)" >>
        ELSE <<>>)
    \o (IF Below(guarded_mean(scores, close_of), 1, 1)
        THEN << "Add closing questions ('Does that make sense?', 'Which works better?')" >>
        ELSE <<>>)
    \o (IF SumBy(scores, breakers_of) > 0
        THEN << "Avoid rapport breakers (" \o Str(SumBy(scores, breakers_of))
                \o " instances detected)" >>
        ELSE <<>>)

recommend_techniques(scores) ==
    (IF ~Contains(Join(" ", all_techniques(scores)), "Feel-Felt-Found")
     THEN << "Try Feel-Felt-Found: 'I know how you FEEL... clients have FELT the same... but what they FOUND was...'" >>
     ELSE <<>>)
    \o (IF ~Contains(Join(" ", all_techniques(scores)), "Has There Ever Been")
        THEN << "Use 'Has There Ever Been': Leverage past mistakes to prevent new ones" >>
        ELSE <<>>)
    \o (IF 2 * Cardinality({ i \in 1..Len(scores) : scores[i].isolate < 2 }) > Len(scores)
        THEN << "Practice isolation: 'Besides X, is there any other reason you wouldn't Y?'" >>
        ELSE <<>>)

\* the CallAnalysisReport analyze_call builds once the turns are scored
build_report(segments, pairs, scores) ==
    [ transcript |-> segments,
      turn_scores |-> scores,
      overall_score |-> overall_metrics(scores).overall_score,
      max_score |-> overall_metrics(scores).max_score,
      percentage |-> overall_metrics(scores).percentage,
      grade |-> overall_metrics(scores).grade,
      timestamped_feedback |-> generate_timestamped_feedback(segments, pairs, scores),
      key_wins |-> identify_key_wins(scores),
      improvement_areas |-> identify_improvements(scores),
      technique_recommendations |-> recommend_techniques(scores),
      missed_opportunities |-> find_missed_opportunities(segments, pairs, scores) ]

\* analyze_call once _extract_turns has returned pairs
analyze_turns(segments, pairs) ==
    build_report(segments, pairs, [ i \in 1..Len(pairs) |-> ScoreOf[pairs[i][1]] ])

AnalyzeCall ==
    /\ turns' = extract_turns(transcript)
    /\ scanned' = scan_positions(transcript)
    /\ report' = analyze_turns(transcript, extract_turns(transcript))
    /\ summary' = NoSummary
    /\ call' = [op |-> "analyze_call", arg |-> Len(transcript), before |-> cooperation_level]
    /\ UNCHANGED <<transcript, persona_vars, scorer_vars, agent_vars>>

\* the texts of a call's segments, and whether an agent keyword occurs in them
CallTexts ==
    { "I understand. Actually, no.", "Besides price, is there any issue?", FullCFR }

HasKeyword == [ text \in CallTexts |-> is_agent(text) ]

IdentifySpeakers ==
    /\ transcript' = identify_speakers(transcript, HasKeyword)
    /\ turns' = <<>>
    /\ scanned' = <<>>
    /\ report' = NoReport
    /\ summary' = NoSummary
    /\ call' = [op |-> "identify_speakers", arg |-> transcript, before |-> cooperation_level]
    /\ UNCHANGED <<persona_vars, scorer_vars, agent_vars>>

(***************************************************************************)
(* Specifications                                                          *)
(***************************************************************************)
NoResponse == [ client_response |-> "", persona_cooperation |-> 5 ]

Init ==
    /\ agent_message = ""
    /\ score = NewTurnScore
    /\ cooperation_level = 5
    /\ current_objection_index = 0
    /\ objections_raised = <<>>
    /\ conversation_turns = <<>>
    /\ turn_scores = <<>>
    /\ training_mode \in TrainingModes
    /\ response = NoResponse
    /\ summary = NoSummary
    /\ transcript = <<>>
    /\ turns = <<>>
    /\ scanned = <<>>
    /\ report = NoReport
    /\ call = [op |-> "init", arg |-> 0, before |-> 5]

\* a live training session
Next ==
    \/ \E m \in SessionUtterances : \E r \in Replies : chat(m, TRUE, r)
    \/ \E m \in SessionUtterances : chat(m, FALSE, "")
    \/ reset
    \/ get_next_objection
    \/ GetSessionSummary

Spec == Init /\ [][Next]_vars

\* a live training session in which self.agent.invoke always returns
NextReplies ==
    \/ \E m \in SessionUtterances : \E r \in Replies : chat(m, TRUE, r)
    \/ reset
    \/ get_next_objection
    \/ GetSessionSummary

SpecReplies == Init /\ [][NextReplies]_vars

\* the scorer on its own
NextScorer == \E u \in Utterances : ScoreTurn(u)

InitScorer == Init /\ training_mode = "scoring"

SpecScorer == InitScorer /\ [][NextScorer]_vars

\* The session after the opening chat and one scored chat per utterance of
\* us, the text-generation service answering "" each time.
Repeat(u, n) == [i \in 1..n |-> u]

\* ten-turn sessions that total 99, 88, 77 and 66 of 110
LongSessions ==
    { Repeat(StrongTurn, 9) \o << FullCFR >>,
      Repeat(StrongTurn, 8) \o << "That makes perfect sense. Let's go.",
                                   "Actually, no. Perfect!" >>,
      Repeat(StrongTurn, 7) \o << "That makes perfect sense. Let's go.", "", "" >>,
      Repeat(FullCFR, 7) \o << "", "", "" >> }

Histories ==
    UNION { [1..n -> SessionUtterances] : n \in 0..MaxHistory } \cup LongSessions

\* the cooperation level after adjust_cooperation ran for each score in turn
RECURSIVE CooperationAfter(_)
CooperationAfter(scores) ==
    IF scores = <<>> THEN 5
    ELSE adjust_cooperation(CooperationAfter(SubSeq(scores, 1, Len(scores) - 1)),
                            total(scores[Len(scores)]))

\* the state of the session in which the utterances us got the scores
SessionOf(us, scores) ==
    [ agent_message |-> IF us = <<>> THEN "" ELSE us[Len(us)],
      score |-> IF us = <<>> THEN NewTurnScore ELSE scores[Len(us)],
      cooperation_level |-> CooperationAfter(scores),
      conversation_turns |->
          << <<"", "">> >> \o [i \in 1..Len(us) |-> <<us[i], "">>],
      turn_scores |-> scores,
      response |-> chat_response("scoring", "", CooperationAfter(scores), us # <<>>,
                                 IF us = <<>> THEN NewTurnScore ELSE scores[Len(us)]),
      call |-> [op |-> "chat",
                arg |-> IF us = <<>> THEN 0 - 1 ELSE total(scores[Len(us)]),
                before |-> CooperationAfter(SubSeq(scores, 1, Len(us) - 1))] ]

\* computed once per history
SessionAfter ==
    [ us \in Histories |-> SessionOf(us, [i \in 1..Len(us) |-> ScoreOf[us[i]]]) ]

InitSession(session) ==
    /\ agent_message = session.agent_message
    /\ score = session.score
    /\ cooperation_level = session.cooperation_level
    /\ current_objection_index = 0
    /\ objections_raised = <<>>
    /\ conversation_turns = session.conversation_turns
    /\ turn_scores = session.turn_scores
    /\ training_mode = "scoring"
    /\ response = session.response
    /\ summary = NoSummary
    /\ transcript = <<>>
    /\ turns = <<>>
    /\ scanned = <<>>
    /\ report = NoReport
    /\ call = session.call

InitSummary == \E us \in Histories : InitSession(SessionAfter[us])

NextSummary == GetSessionSummary

\* get_session_summary over recorded histories
SpecSummary == InitSummary /\ [][NextSummary]_vars

\* Transcripts of n segments in chronological order: the first starts at 0,
\* each later one 5 s after its predecessor, but for at most one that starts
\* together with its predecessor; every segment lasts 4 s.  A transcript
\* comes unlabelled from the transcription, or labelled segment by segment.
StartTimes(n) ==
    { starts \in [1..n -> { 50 * k : k \in 0..(n - 1) }] :
        /\ n > 0 => starts[1] = 0
        /\ \A i \in 2..n : starts[i] - starts[i - 1] \in { 0, 50 }
        /\ Cardinality({ i \in 2..n : starts[i] = starts[i - 1] }) <= 1 }

Transcripts(n) ==
    { [ i \in 1..n |-> TranscriptSegment(starts[i], starts[i] + 40,
                                         texts[i], speakers[i]) ] :
        starts \in StartTimes(n), texts \in [1..n -> CallTexts],
        speakers \in [1..n -> { "agent", "client" }] \cup { [i \in 1..n |-> None] } }

InitCall ==
    /\ agent_message = ""
    /\ score = NewTurnScore
    /\ cooperation_level = 5
    /\ current_objection_index = 0
    /\ objections_raised = <<>>
    /\ conversation_turns = <<>>
    /\ turn_scores = <<>>
    /\ training_mode = "scoring"
    /\ response = NoResponse
    /\ summary = NoSummary
    /\ \E n \in 0..MaxSegments : transcript \in Transcripts(n)
    /\ turns = <<>>
    /\ scanned = <<>>
    /\ report = NoReport
    /\ call = [op |-> "init", arg |-> 0, before |-> 5]

NextCall ==
    \/ IdentifySpeakers
    \/ AnalyzeCall

\* the offline analysis of an uploaded call
SpecCall == InitCall /\ [][NextCall]_vars

\* the persona on its own
NextPersona ==
    \/ \E q \in Qualities : AdjustCooperation(q)
    \/ get_next_objection
    \/ reset_conversation

InitPersona == Init /\ training_mode = "scoring"

SpecPersona == InitPersona /\ [][NextPersona]_vars

(***************************************************************************)
(* What the claims speak of, stated apart from the scorer's own code       *)
(***************************************************************************)
SubScores(ts) == <<ts.acknowledge_affirm, ts.isolate, ts.handle, ts.close>>

SumOfSubScores(ts) == ts.acknowledge_affirm + ts.isolate + ts.handle + ts.close

\* the step function 0 -> 0, 1 -> one, 2 or more -> many
Step(n, one, many) == IF n = 0 THEN 0 ELSE IF n = 1 THEN one ELSE many

\* the markers that occur in an utterance
AckHits(u) ==
    { k \in 1..Len(acknowledge_terms) : Contains(Lower(u), acknowledge_terms[k]) }
IsoHits(u) ==
    { k \in 1..Len(isolation_patterns) : re_search(isolation_patterns[k], Lower(u)) }
CloseHits(u) ==
    { k \in 1..Len(closing_patterns) : re_search(closing_patterns[k], Lower(u)) }
BreakerHits(u) ==
    { k \in 1..Len(rapport_breaker_patterns) :
        re_search(rapport_breaker_patterns[k], Lower(u)) }
HasFFF(u) ==
    \E t \in {"how you feel", "you felt", "they found"} : Contains(Lower(u), t)
HasHTEB(u) == Contains(Lower(u), "has there ever been a time")
HasLevelShift(u) ==
    \E k \in 1..Len(level_shift_phrases) : Contains(Lower(u), level_shift_phrases[k])
HasEmbedded(u) == find_embedded(u) # <<>>

Markers(u) ==
    [ ack |-> AckHits(u), iso |-> IsoHits(u), close |-> CloseHits(u),
      fff |-> HasFFF(u), hteb |-> HasHTEB(u), shift |-> HasLevelShift(u),
      embedded |-> HasEmbedded(u) ]

MarkersOf == [u \in Utterances |-> Markers(u)]
BreakersOf == [u \in Utterances |-> BreakerHits(u)]

\* the number of places where t occurs in s
Occurrences(s, t) == Cardinality({ i \in 1..Len(s) : StartsAt(s, t, i) })

HandleNudge == "[!] Consider using Feel-Felt-Found or Has There Ever Been technique"
MissingAck == "[!] Missing acknowledgement - start with 'Perfect', 'I can appreciate that', etc."
MissingIso == "[!] Missing isolation - ask 'Besides that, is there any other reason you wouldn't...?'"
MissingClose == "[!] Missing close - try 'Does that make sense?', 'Which works better for you?'"

InFeedback(ts, line) == \E k \in 1..Len(ts.feedback) : ts.feedback[k] = line

Scored == call.op = "score_turn"

\* the four bands of section 4.2 of the specification
Band(c, t) ==
    IF t >= 8 THEN Min(10, c + 2)
    ELSE IF 5 <= t /\ t < 8 THEN Min(10, c + 1)
    ELSE IF t < 3 THEN Max(0, c - 2)
    ELSE Max(0, c - 1)

Clamp(t, lo, hi) == IF t < lo THEN lo ELSE IF t > hi THEN hi ELSE t

Adjusted == call.op = "adjust_cooperation"

(***************************************************************************)
(* C1: every TurnScore the session keeps, and the one score_turn returned  *)
(* last, has total = acknowledge_affirm + isolate + handle + close and     *)
(* max_score = 11 for as long as it lives; total is no field of its own,   *)
(* and the score a chat response shows is that sum.                        *)
(***************************************************************************)
C1_TotalIsSum ==
    /\ \A i \in 1..Len(turn_scores) :
          /\ total(turn_scores[i]) = SumOfSubScores(turn_scores[i])
          /\ max_score(turn_scores[i]) = 11
          /\ "total" \notin DOMAIN turn_scores[i]
    /\ total(score) = SumOfSubScores(score)
    /\ max_score(score) = 11
    /\ (call.op = "chat" /\ "score" \in DOMAIN response) =>
          /\ response.score = SumOfSubScores(turn_scores[Len(turn_scores)])
          /\ response.max_score = 11

C1_Witness ==
    /\ Len(turn_scores) = 2
    /\ turn_scores[1].rapport_breakers # <<>>
    /\ total(turn_scores[1]) = 3
    /\ call.op = "reset" \/ call.op = "get_next_objection" \/ call.op = "chat"

(***************************************************************************)
(* C2: acknowledge_affirm is 0 when no acknowledgement term occurs in the  *)
(* lower-cased utterance, 2 when exactly one distinct term occurs and 3    *)
(* when two or more distinct terms occur.                                  *)
(***************************************************************************)
C2_AcknowledgeStep ==
    Scored =>
        score.acknowledge_affirm = Step(Cardinality(AckHits(agent_message)), 2, 3)

C2_Witness ==
    /\ Scored
    /\ Cardinality(AckHits(agent_message)) = 1
    /\ score.acknowledge_affirm = 2

(***************************************************************************)
(* C3: handle is never 0; when none of the four handle sources fires it    *)
(* is exactly 1 and the nudge line is in the feedback.                     *)
(***************************************************************************)
C3_HandleNeverZero ==
    Scored =>
        /\ score.handle \in 1..3
        /\ ~(\/ HasFFF(agent_message) \/ HasHTEB(agent_message)
             \/ HasLevelShift(agent_message) \/ HasEmbedded(agent_message)) =>
              /\ score.handle = 1
              /\ InFeedback(score, HandleNudge)

C3_Witness ==
    /\ Scored
    /\ agent_message # ""
    /\ ~HasFFF(agent_message) /\ ~HasHTEB(agent_message)
    /\ ~HasLevelShift(agent_message) /\ ~HasEmbedded(agent_message)
    /\ score.handle = 1
    /\ InFeedback(score, HandleNudge)

(***************************************************************************)
(* C4: when a handle source fires, handle = min(3, 2*[Feel-Felt-Found] +   *)
(* 2*[Has there ever been] + [level shift] + [embedded command]), each     *)
(* source counted once however often it occurs.                            *)
(***************************************************************************)
C4_HandleSum ==
    LET u == agent_message
        points == (IF HasFFF(u) THEN 2 ELSE 0) + (IF HasHTEB(u) THEN 2 ELSE 0)
                  + (IF HasLevelShift(u) THEN 1 ELSE 0)
                  + (IF HasEmbedded(u) THEN 1 ELSE 0)
    IN  (Scored /\ points > 0) => score.handle = Min(3, points)

\* Feel-Felt-Found twice in one utterance still gives 2
C4_Witness ==
    /\ Scored
    /\ Occurrences(Lower(agent_message), "how you feel") = 2
    /\ score.handle = 2

(***************************************************************************)
(* C5: isolate is the step function 0 -> 0, 1 -> 2, 2 or more -> 3 of the  *)
(* number of distinct isolation patterns matched, close the step function  *)
(* 0 -> 0, 1 -> 1, 2 or more -> 2 of the number of distinct closing        *)
(* patterns matched.                                                       *)
(***************************************************************************)
C5_IsolateCloseStep ==
    Scored =>
        /\ score.isolate = Step(Cardinality(IsoHits(agent_message)), 2, 3)
        /\ score.close = Step(Cardinality(CloseHits(agent_message)), 1, 2)

C5_Witness ==
    /\ Scored
    /\ Cardinality(IsoHits(agent_message)) = 1
    /\ score.isolate = 2
    /\ Cardinality(CloseHits(agent_message)) = 1
    /\ score.close = 1

(***************************************************************************)
(* C6 as stated: scoring the empty string gives 0 on all four sub-scores   *)
(* and a 'missing' feedback line for each of the four dimensions.          *)
(***************************************************************************)
MissingLines(ts) ==
    Cardinality({ k \in 1..Len(ts.feedback) : StartsAt(ts.feedback[k], "[!] Missing", 1) })

C6_Original ==
    (Scored /\ agent_message = "") =>
        /\ SubScores(score) = <<0, 0, 0, 0>>
        /\ MissingLines(score) = 4

(***************************************************************************)
(* C6 amended: scoring the empty string returns a TurnScore with           *)
(* acknowledge_affirm, isolate and close 0 and handle 1 (the baseline),    *)
(* with a 'missing' line for acknowledge, isolate and close and the nudge  *)
(* line for handle, and nothing else.                                      *)
(***************************************************************************)
C6_EmptyUtterance ==
    (Scored /\ agent_message = "") =>
        /\ SubScores(score) = <<0, 0, 1, 0>>
        /\ score.feedback = <<MissingAck, MissingIso, HandleNudge, MissingClose>>
        /\ score.rapport_breakers = <<>>

C6_Witness ==
    /\ Scored
    /\ agent_message = ""
    /\ score.handle = 1
    /\ MissingLines(score) = 3

(***************************************************************************)
(* C7: two utterances with the same acknowledgement, isolation, handle and *)
(* closing markers have equal sub-scores and totals whatever rapport       *)
(* breakers they match; the breakers only add one entry each to            *)
(* rapport_breakers and one penalty line naming their number.              *)
(***************************************************************************)
PenaltyLines(ts) ==
    { k \in 1..Len(ts.feedback) : StartsAt(ts.feedback[k], "[!] Rapport breakers detected", 1) }

C8_Bands ==
    Adjusted =>
        LET c == call.before
            t == call.arg
        IN  /\ t >= 8 => cooperation_level = Min(10, c + 2)
            /\ (5 <= t /\ t < 8) => cooperation_level = Min(10, c + 1)
            /\ t < 3 => cooperation_level = Max(0, c - 2)
            /\ (3 <= t /\ t < 5) => cooperation_level = Max(0, c - 1)
            /\ Cardinality({ b \in 1..4 :
                               \/ b = 1 /\ t >= 8
                               \/ b = 2 /\ 5 <= t /\ t < 8
                               \/ b = 3 /\ t < 3
                               \/ b = 4 /\ 3 <= t /\ t < 5 }) = 1

C8_Witness ==
    /\ Adjusted
    /\ call.arg = 8
    /\ call.before = 5
    /\ cooperation_level = 7

(***************************************************************************)
(* C9: from the initial level 5, after any sequence of adjust_cooperation  *)
(* and reset calls cooperation_level is an integer in [0, 10]; adjust(11)  *)
(* at 9 gives 10 and adjust(0) at 1 gives 0.                               *)
(***************************************************************************)
C9_LevelInRange ==
    /\ cooperation_level \in 0..10
    /\ (Adjusted /\ call.arg = 11 /\ call.before = 9) => cooperation_level = 10
    /\ (Adjusted /\ call.arg = 0 /\ call.before = 1) => cooperation_level = 0

C9_Witness ==
    /\ Adjusted
    /\ call.arg = 11
    /\ call.before = 9
    /\ cooperation_level = 10

(***************************************************************************)
(* C10: for a turn_total below 0 or above 11 adjust_cooperation gives the  *)
(* level the bands give for the turn_total clamped into [0, 11], and the   *)
(* level stays in [0, 10].                                                 *)
(***************************************************************************)
C10_OutOfRange ==
    Adjusted =>
        /\ cooperation_level = adjust_cooperation(call.before, Clamp(call.arg, 0, 11))
        /\ cooperation_level = Band(call.before, Clamp(call.arg, 0, 11))
        /\ cooperation_level \in 0..10

C10_Witness ==
    /\ Adjusted
    /\ call.arg < 0
    /\ call.before = 5
    /\ cooperation_level = 3

(***************************************************************************)
(* C11: after reset, from any reachable state, cooperation_level is 5, the *)
(* objection cursor is 0 and objections_raised, turn_scores and            *)
(* conversation_turns are empty: the session state is that of a freshly    *)
(* constructed agent, so every later step is the one a fresh session takes.*)
(***************************************************************************)
FreshSession ==
    /\ cooperation_level = 5
    /\ current_objection_index = 0
    /\ objections_raised = <<>>
    /\ turn_scores = <<>>
    /\ conversation_turns = <<>>

C11_ResetIsFresh == call.op = "reset" => FreshSession

\* a reset of a session that had a scored turn, a raised objection and a
\* cooperation level away from 5
C11_Witness ==
    /\ call.op = "reset"
    /\ call.before # 5
    /\ agent_message # ""
    /\ FreshSession

(***************************************************************************)
(* C12: get_session_summary with no turn score recorded returns the 'No    *)
(* turns scored yet' sentinel, with no total, percentage or grade, and     *)
(* divides by nothing that is zero; a call leaves turn_scores,             *)
(* conversation_turns and cooperation_level as they were, and a call right *)
(* after another returns the same result.                                  *)
(***************************************************************************)
NoTurnsSentinel == [ message |-> "No turns scored yet" ]

Summarised == call.op = "get_session_summary"

C12_NoTurnsSentinel ==
    [][ call'.op = "get_session_summary" =>
          /\ turn_scores' = turn_scores
          /\ conversation_turns' = conversation_turns
          /\ cooperation_level' = cooperation_level
          /\ turn_scores' = <<>> => summary' = NoTurnsSentinel
          /\ "percentage" \in DOMAIN summary' => summary'.percentage.den > 0
          /\ Summarised => summary' = summary ]_vars

\* the summary asked for after the opening chat, before any turn was scored
C12_Witness ==
    /\ Summarised
    /\ conversation_turns # <<>>
    /\ turn_scores = <<>>
    /\ summary = NoTurnsSentinel

(***************************************************************************)
(* C13: for a non-empty list of turn scores the session summary and the    *)
(* call report compute the same aggregate: total = sum of the turn totals, *)
(* max = 11 * number of turns, grade A iff 100*total >= 90*max, else B iff *)
(* >= 80*max, else C iff >= 70*max, else D iff >= 60*max, else F.          *)
(***************************************************************************)
GradeOf(t, m) ==
    IF 100 * t >= 90 * m THEN "A"
    ELSE IF 100 * t >= 80 * m THEN "B"
    ELSE IF 100 * t >= 70 * m THEN "C"
    ELSE IF 100 * t >= 60 * m THEN "D"
    ELSE "F"

C13_SameAggregate ==
    (Summarised /\ turn_scores # <<>>) =>
        LET t == SumBy(turn_scores, SumOfSubScores)
            m == 11 * Len(turn_scores)
        IN  /\ summary.total_score = t
            /\ summary.max_score = m
            /\ summary.grade = GradeOf(t, m)
            /\ overall_metrics(turn_scores).overall_score = t
            /\ overall_metrics(turn_scores).max_score = m
            /\ overall_metrics(turn_scores).grade = GradeOf(t, m)
            /\ overall_metrics(turn_scores).percentage = summary.percentage

\* ten turns that total 99 of 110: exactly 90 per cent
C13_Witness ==
    /\ Summarised
    /\ Len(turn_scores) = 10
    /\ summary.total_score = 99
    /\ summary.grade = "A"
    /\ overall_metrics(turn_scores).grade = "A"

(***************************************************************************)
(* C14: in the session summary each of the four dimensions                 *)
(* (acknowledge_affirm, isolate, handle, close) gives a strength line when *)
(* its mean over the recorded turns is >= 2.5 and an improvement line when *)
(* its mean is < 2.                                                        *)
(***************************************************************************)
Dimensions == { "acknowledge_affirm", "isolate", "handle", "close" }

DimensionSum(d) == SumSeq([i \in 1..Len(turn_scores) |-> turn_scores[i][d]])

C14_FourDimensions ==
    (Summarised /\ turn_scores # <<>>) =>
        LET n == Len(turn_scores)
            strong == { d \in Dimensions : 2 * DimensionSum(d) >= 5 * n }
            weak == { d \in Dimensions : DimensionSum(d) < 2 * n }
            breakers == IF SumBy(turn_scores, breakers_of) > 0 THEN 1 ELSE 0
        IN  /\ Len(summary.strengths) = Cardinality(strong)
            /\ Len(summary.improvements) = Cardinality(weak) + breakers

(***************************************************************************)
(* What the claims about a call speak of                                   *)
(***************************************************************************)
Analysed == call.op = "analyze_call"
Identified == call.op = "identify_speakers"

Chronological(segments) ==
    \A i \in 2..Len(segments) : segments[i - 1].start <= segments[i].start

\* the positions of the segments of a speaker, in transcript order
PositionsOf(segments, speaker) ==
    SelectSeq([i \in 1..Len(segments) |-> i], LAMBDA i : segments[i].speaker = speaker)

\* the text of the latest client segment that starts before segment a
LatestClientBefore(segments, a) ==
    LET before == { j \in 1..Len(segments) :
                      /\ segments[j].speaker = "client"
                      /\ segments[j].start < segments[a].start }
    IN  IF before = {} THEN ""
        ELSE segments[CHOOSE j \in before : \A k \in before : k <= j].text

(***************************************************************************)
(* C15: for a labelled transcript in non-decreasing start-time order,      *)
(* _extract_turns gives one pair per agent segment, in transcript order,   *)
(* whose counterpart text is the text of the latest client segment that    *)
(* starts strictly before the agent segment, or "" when there is none.     *)
(***************************************************************************)
C15_PairsWithLatestClient ==
    (Analysed /\ Chronological(transcript)) =>
        LET agents == PositionsOf(transcript, "agent")
        IN  /\ Len(turns) = Len(agents)
            /\ \A k \in 1..Len(agents) :
                  /\ turns[k][1] = transcript[agents[k]].text
                  /\ turns[k][2] = LatestClientBefore(transcript, agents[k])

\* segments at 0, 5, 10 and 15 s labelled client, agent, client, agent
C15_Witness ==
    /\ Analysed
    /\ Len(transcript) = 4
    /\ [i \in 1..4 |-> transcript[i].start] = << 0, 50, 100, 150 >>
    /\ [i \in 1..4 |-> transcript[i].speaker] = << "client", "agent", "client", "agent" >>
    /\ transcript[1].text # transcript[3].text
    /\ turns = << << transcript[2].text, transcript[1].text >>,
                  << transcript[4].text, transcript[3].text >> >>

(***************************************************************************)
(* C16: when the transcript has no agent-labelled segment or no            *)
(* client-labelled segment, _extract_turns returns no pair.                *)
(***************************************************************************)
C16_EmptyWithoutEitherSpeaker ==
    (/\ Analysed
     /\ \/ PositionsOf(transcript, "agent") = <<>>
        \/ PositionsOf(transcript, "client") = <<>>)
    => turns = <<>>

(***************************************************************************)
(* C17: analyze_call on a transcript that yields no turn divides by        *)
(* nothing that is zero and returns a 'no data' result that can be told    *)
(* from a graded report: it shows no letter grade.                         *)
(***************************************************************************)
C17_NoDataReport ==
    (Analysed /\ turns = <<>>) =>
        /\ report.percentage.den > 0
        /\ "grade" \notin DOMAIN report

(***************************************************************************)
(* C18: identify_speakers labels the first segment 'agent' if an agent     *)
(* keyword occurs in its lower-cased text and 'client' otherwise, every    *)
(* later segment 'agent' if a keyword occurs in it and otherwise the       *)
(* opposite of the label the segment before it just got; start, end, text *)
(* and the order of the segments stay as they were.                        *)
(***************************************************************************)
Opposite(speaker) == IF speaker = "agent" THEN "client" ELSE "agent"

C18_KeywordOrAlternate ==
    Identified =>
        LET before == call.arg
        IN  /\ Len(transcript) = Len(before)
            /\ \A i \in 1..Len(before) :
                  /\ transcript[i].start = before[i].start
                  /\ transcript[i].end = before[i].end
                  /\ transcript[i].text = before[i].text
                  /\ DOMAIN transcript[i] = DOMAIN before[i]
                  /\ transcript[i].speaker =
                        IF HasKeyword[before[i].text] THEN "agent"
                        ELSE IF i = 1 THEN "client"
                        ELSE Opposite(transcript[i - 1].speaker)

\* three unlabelled segments without keyword come out client, agent, client
C18_Witness ==
    /\ Identified
    /\ Len(transcript) >= 3
    /\ \A i \in 1..3 : call.arg[i].speaker = None /\ ~HasKeyword[transcript[i].text]
    /\ [i \in 1..3 |-> transcript[i].speaker] = << "client", "agent", "client" >>

(***************************************************************************)
(* C19: for each turn i, in turn order, the timestamped feedback has one   *)
(* 'critical' entry per rapport breaker of the turn, one 'improvement'     *)
(* entry iff its isolate score is < 2 and one 'strength' entry iff its     *)
(* total is >= 9, each with turn_number i and the start time of the i-th   *)
(* agent segment, and no other entry.                                      *)
(***************************************************************************)
EntriesOf(entries, i, type) ==
    Cardinality({ k \in 1..Len(entries) :
                    entries[k].turn_number = i /\ entries[k].feedback_type = type })

C19_FeedbackPerTurn ==
    Analysed =>
        LET entries == report.timestamped_feedback
            scores == report.turn_scores
            agents == PositionsOf(transcript, "agent")
        IN  /\ Len(scores) = Len(turns)
            /\ \A i \in 1..Len(scores) :
                  /\ EntriesOf(entries, i, "critical") = Len(scores[i].rapport_breakers)
                  /\ EntriesOf(entries, i, "improvement")
                        = (IF scores[i].isolate < 2 THEN 1 ELSE 0)
                  /\ EntriesOf(entries, i, "strength")
                        = (IF SumOfSubScores(scores[i]) >= 9 THEN 1 ELSE 0)
            /\ \A k \in 1..Len(entries) :
                  /\ entries[k].turn_number \in 1..Len(scores)
                  /\ entries[k].feedback_type \in { "critical", "improvement", "strength" }
                  /\ entries[k].timestamp = transcript[agents[entries[k].turn_number]].start
            /\ \A k \in 2..Len(entries) :
                  entries[k - 1].turn_number <= entries[k].turn_number

\* a turn with two rapport breakers after a turn that earned a strength entry
C19_Witness ==
    /\ Analysed
    /\ Len(turns) >= 2
    /\ EntriesOf(report.timestamped_feedback, 1, "strength") = 1
    /\ EntriesOf(report.timestamped_feedback, 2, "critical") = 2
    /\ EntriesOf(report.timestamped_feedback, 2, "improvement") = 1
    /\ \E k \in 1..Len(report.timestamped_feedback) :
          /\ report.timestamped_feedback[k].turn_number = 2
          /\ report.timestamped_feedback[k].timestamp > 0

(***************************************************************************)
(* C20: missed_opportunities never has more than 5 entries and is the      *)
(* first-5 prefix of the list built in turn order, in which a turn gives   *)
(* an isolation entry iff isolate = 0 and its counterpart text is not      *)
(* empty, then an acknowledgement entry iff acknowledge_affirm = 0.        *)
(***************************************************************************)
OpportunityKinds(entries) ==
    [ k \in 1..Len(entries) |-> << entries[k].timestamp, entries[k].suggestion >> ]

ExpectedOpportunities ==
    LET scores == report.turn_scores
        agents == PositionsOf(transcript, "agent")
        at(i) == format_timestamp(transcript[agents[i]].start)
    IN  Flatten([ i \in 1..Len(turns) |->
                    (IF scores[i].isolate = 0 /\ turns[i][2] # ""
                     THEN << << at(i), "Isolate the objection" >> >> ELSE <<>>)
                    \o (IF scores[i].acknowledge_affirm = 0
                        THEN << << at(i), "Start with acknowledgement term" >> >>
                        ELSE <<>>) ])

C20_FirstFiveOpportunities ==
    Analysed =>
        /\ Len(report.missed_opportunities) <= 5
        /\ Len(report.missed_opportunities) = Min(5, Len(ExpectedOpportunities))
        /\ OpportunityKinds(report.missed_opportunities)
              = SubSeq(ExpectedOpportunities, 1, Len(report.missed_opportunities))

\* six entries were built and the sixth was cut off
C20_Witness ==
    /\ Analysed
    /\ Len(ExpectedOpportunities) = 6
    /\ Len(report.missed_opportunities) = 5
    /\ report.missed_opportunities[5].suggestion = "Isolate the objection"

(***************************************************************************)
(* C21: for each named technique (Feel-Felt-Found, Has There Ever Been)    *)
(* the call report recommends practising it exactly when the technique's   *)
(* pattern fired in no turn of the call.                                   *)
(***************************************************************************)
RecommendsFFF ==
    \E k \in 1..Len(report.technique_recommendations) :
        Contains(report.technique_recommendations[k], "Try Feel-Felt-Found")

RecommendsHTEB ==
    \E k \in 1..Len(report.technique_recommendations) :
        Contains(report.technique_recommendations[k], "Use 'Has There Ever Been'")

C21_RecommendWhatNeverFired ==
    Analysed =>
        /\ RecommendsFFF <=> (\A i \in 1..Len(turns) : ~MarkersOf[turns[i][1]].fff)
        /\ RecommendsHTEB <=> (\A i \in 1..Len(turns) : ~MarkersOf[turns[i][1]].hteb)

(***************************************************************************)
(* C22: the key-wins variety callout is emitted exactly when at least 3    *)
(* distinct techniques were detected across the turns of the call, so the  *)
(* number of different techniques it reports is never below 3.             *)
(***************************************************************************)
VarietyCallouts ==
    { k \in 1..Len(report.key_wins) :
        Contains(report.key_wins[k], "Demonstrated variety of techniques") }

DistinctTechniques == Cardinality(Range(all_techniques(report.turn_scores)))

C22_VarietyOfThree ==
    Analysed =>
        /\ (VarietyCallouts # {}) <=> (DistinctTechniques >= 3)
        /\ \A k \in VarietyCallouts :
              \E n \in 3..(3 * MaxSegments) :
                  Contains(report.key_wins[k], "(" \o Str(n) \o " different)")

(***************************************************************************)
(* C23: an utterance on which at least one rubric marker fires (an         *)
(* acknowledgement term, an isolation pattern, a handle technique or       *)
(* embedded command, a closing pattern) gets a strictly greater total than *)
(* any utterance on which no marker fires.                                 *)
(***************************************************************************)
AnyMarker(m) ==
    \/ m.ack # {} \/ m.iso # {} \/ m.close # {}
    \/ m.fff \/ m.hteb \/ m.shift \/ m.embedded

C23_MarkedOutscoresUnmarked ==
    (Scored /\ AnyMarker(MarkersOf[agent_message])) =>
        \A v \in Utterances :
            ~AnyMarker(MarkersOf[v]) => total(score) > total(ScoreOf[v])

(***************************************************************************)
(* C24: the embedded-command point is awarded exactly when the utterance,  *)
(* in its original case, contains a run of at least two consecutive        *)
(* all-capital words; a single all-caps word does not earn it.             *)
(***************************************************************************)
\* s[i..e] is a whole word of two or more capital letters
AllCapsWord(s, i, e) ==
    /\ e > i
    /\ \A k \in i..e : IsUpper(Char(s, k))
    /\ i = 1 \/ ~IsWordChar(Char(s, i - 1))
    /\ e = Len(s) \/ ~IsWordChar(Char(s, e + 1))

\* two all-capital words with nothing but whitespace between them
TwoCapsWords(s) ==
    \E i \in 1..Len(s) : \E e \in (i + 1)..Len(s) :
        /\ AllCapsWord(s, i, e)
        /\ \E j \in (e + 2)..Len(s) : \E f \in (j + 1)..Len(s) :
              /\ \A k \in (e + 1)..(j - 1) : IsSpace(Char(s, k))
              /\ AllCapsWord(s, j, f)

EmbeddedAwarded(ts) ==
    \E k \in 1..Len(ts.feedback) :
        StartsAt(ts.feedback[k], "[ok] Used embedded command: ", 1)

C24_EmbeddedNeedsTwoWords ==
    Scored => (EmbeddedAwarded(score) <=> TwoCapsWords(agent_message))

(***************************************************************************)
(* C25: techniques_detected holds exactly the names of the handle          *)
(* techniques whose patterns matched the utterance (Feel-Felt-Found, Has   *)
(* There Ever Been, Level Shift) and is empty when none matched.           *)
(***************************************************************************)
MatchedTechniques(m) ==
    (IF m.fff THEN << "Feel-Felt-Found" >> ELSE <<>>)
    \o (IF m.hteb THEN << "Has There Ever Been" >> ELSE <<>>)
    \o (IF m.shift THEN << "Level Shift" >> ELSE <<>>)

C25_TechniquesDetected ==
    Scored =>
        LET matched == MatchedTechniques(MarkersOf[agent_message])
        IN  /\ Len(score.techniques_detected) = Len(matched)
            /\ \A k \in 1..Len(matched) :
                  StartsAt(score.techniques_detected[k], matched[k], 1)

(***************************************************************************)
(* C26: during turn extraction the scan position over the client segments  *)
(* never moves backward from one agent segment to the next: the scan for   *)
(* an agent segment takes up where the scan for the one before it stopped, *)
(* so it visits no client segment that lies before that position.          *)
(***************************************************************************)
Last(s) == s[Len(s)]

C26_SingleForwardPass ==
    Analysed =>
        \A i \in 2..Len(scanned) :
            scanned[i - 1] # <<>> =>
                \A k \in 1..Len(scanned[i]) : scanned[i][k] >= Last(scanned[i - 1])

(***************************************************************************)
(* C27: if the text generation of a chat call raises, the session state is *)
(* what it was before the call: no turn score recorded, no conversation    *)
(* turn appended, the cooperation level unchanged.                         *)
(***************************************************************************)
C27_FailedChatChangesNothing ==
    [][ call'.op = "chat raised" =>
          /\ turn_scores' = turn_scores
          /\ conversation_turns' = conversation_turns
          /\ cooperation_level' = cooperation_level ]_vars

(***************************************************************************)
(* C28: in a session whose text generation always succeeds, the first chat *)
(* after construction or reset records no turn score and leaves the        *)
(* cooperation level alone, and every later chat records exactly one turn  *)
(* score and applies adjust_cooperation once, with that turn's total,      *)
(* before the reply is generated; so the number of recorded turn scores is *)
(* always max(0, number of conversation turns - 1).                        *)
(***************************************************************************)
C28_OneScorePerLaterChat ==
    /\ [](Len(turn_scores) = Max(0, Len(conversation_turns) - 1))
    /\ [][ call'.op = "chat" =>
             /\ Len(conversation_turns') = Len(conversation_turns) + 1
             /\ IF conversation_turns = <<>>
                THEN /\ turn_scores' = turn_scores
                     /\ cooperation_level' = cooperation_level
                ELSE /\ turn_scores' = Append(turn_scores, score')
                     /\ agent_message' = Last(conversation_turns')[1]
                     /\ cooperation_level' =
                            adjust_cooperation(cooperation_level, SumOfSubScores(score'))
             /\ response'.persona_cooperation = cooperation_level' ]_vars

\* a scored chat that moved the cooperation level, shown in its response
C28_Witness ==
    /\ call.op = "chat"
    /\ Len(conversation_turns) = 2
    /\ Len(turn_scores) = 1
    /\ cooperation_level # call.before
    /\ response.persona_cooperation = cooperation_level

(***************************************************************************)
(* C29: after identify_speakers every segment is labelled 'agent' or       *)
(* 'client', none is left unlabelled, and no two consecutive segments are  *)
(* both labelled 'client'.                                                 *)
(***************************************************************************)
C29_LabelledNoTwoClients ==
    Identified =>
        /\ \A i \in 1..Len(transcript) : transcript[i].speaker \in { "agent", "client" }
        /\ \A i \in 2..Len(transcript) :
              ~(transcript[i - 1].speaker = "client" /\ transcript[i].speaker = "client")

\* an unlabelled transcript of four segments, the first two without keyword
C29_Witness ==
    /\ Identified
    /\ Len(transcript) = 4
    /\ \A i \in 1..4 : call.arg[i].speaker = None
    /\ ~HasKeyword[transcript[1].text] /\ ~HasKeyword[transcript[2].text]
    /\ transcript[1].speaker = "client"
    /\ transcript[2].speaker = "agent"

(***************************************************************************)
(* C30: the training mode decides only what a chat response shows.  In     *)
(* challenge mode no response has a score, max_score or feedback field;    *)
(* the recorded turn scores, the cooperation level after every chat and    *)
(* the session summary are those the utterances and replies give in any    *)
(* mode.                                                                   *)
(***************************************************************************)
\* the scores of the utterances after the opening one, whatever the mode
ScoresOfHistory ==
    [ i \in 1..(Len(conversation_turns) - 1) |-> ScoreOf[conversation_turns[i + 1][1]] ]

C30_ModeOnlyShapesResponse ==
    /\ turn_scores = ScoresOfHistory
    /\ cooperation_level = CooperationAfter(ScoresOfHistory)
    /\ Summarised =>
          summary = get_session_summary(ScoresOfHistory, CooperationAfter(ScoresOfHistory))
    /\ call.op = "chat" =>
          /\ response.persona_cooperation = CooperationAfter(ScoresOfHistory)
          /\ training_mode = "challenge" =>
                DOMAIN response = { "client_response", "persona_cooperation" }
          /\ (training_mode # "challenge" /\ turn_scores # <<>>) =>
                /\ { "score", "max_score", "feedback" } \subseteq DOMAIN response
                /\ response.score = SumOfSubScores(turn_scores[Len(turn_scores)])

\* a scored chat in challenge mode that moved the cooperation level
C30_Witness ==
    /\ call.op = "chat"
    /\ training_mode = "challenge"
    /\ turn_scores # <<>>
    /\ cooperation_level # 5
    /\ "score" \notin DOMAIN response

====
